---- MODULE Spec2Model ----
(***************************************************************************)
(* A model of the connection and transaction core of Mentat (src/conn.rs): *)
(* the Conn's Metadata behind its Mutex, the InProgress handle wrapping a  *)
(* SQLite IMMEDIATE transaction, and the commit protocol; and of the debug *)
(* views of the store (db/src/debug.rs).                                   *)
(*                                                                         *)
(* Threads are identified with the rusqlite connections they write         *)
(* through (Sqlite); every connection is open on the same store.  A step   *)
(* of the model is one step of one thread: taking the SQLite transaction,  *)
(* taking the metadata mutex, one assignment of the commit's critical      *)
(* section, and so on.                                                     *)
(***************************************************************************)
EXTENDS Integers, Sequences, FiniteSets, TLC

\* ------------------------------------------------------------------ bounds
MaxGeneration == 2    \* successful commits explored
MaxTx == 2            \* transactions explored: tx ids TX0 + 1 .. TX0 + MaxTx
MaxProbe == 1         \* user-supplied entids tried: USER0 .. USER0 + MaxProbe

\* ------------------------------------------------- constants of the program
USER0 == 65536        \* mentat_db::USER0, the first index of :db.part/user
TX0 == 268435456      \* 0x10000000, the bootstrap transaction
KnownEntid == 10      \* "10 is a bootstrapped entid"
DbIndex0 == 40        \* next index of :db.part/db after the bootstrap
UserEnd == 268435455  \* last entid of :db.part/user
TxEnd == 536870912    \* last entid of :db.part/tx

\* The rusqlite connections open on the store, one per writer thread.  SQLite
\* admits one IMMEDIATE transaction at a time, so a third writer could only
\* stand where the second stands.
Sqlite == {1, 2}
\* The threads holding an Arc<Schema> taken by current_schema.
Readers == {1}

\* ------------------------------------------------------------ data model
\* A partition of the PartitionMap.
Partition(s, e, i) == [start |-> s, end |-> e, index |-> i]

\* The PartitionMap read by db::ensure_current_version on a fresh store.
InitialPartitionMap ==
    [db   |-> Partition(0, USER0 - 1, DbIndex0),
     user |-> Partition(USER0, UserEnd, USER0),
     tx   |-> Partition(TX0, TxEnd, TX0 + 1)]

\* A Schema, as far as the core sees it: the ident -> entid map.  Contents
\* are compared with = (Schema's PartialEq).
InitialSchema == {<<":db/ident", 1>>}

Idents == {":a/keyword1", ":a/keyword2"}

\* Tempid strings, in the order the transactor allocates them.
TempidOrder == <<"more", "one", "t", "temp", "two", "u">>

\* An entity form [:db/add e a v].  e is a tempid (et) or an entid (en);
\* a is :db/ident (v a keyword, vk) or :db.schema/attribute (v a tempid, vt).
\* op is FALSE for a form whose leading :db/add is missing.
AddIdent(t, k) == [op |-> TRUE, et |-> t, en |-> 0, a |-> ":db/ident", vk |-> k, vt |-> ""]
AddAttrT(t, v) == [op |-> TRUE, et |-> t, en |-> 0, a |-> ":db.schema/attribute", vk |-> "", vt |-> v]
AddAttrE(n, v) == [op |-> TRUE, et |-> "", en |-> n, a |-> ":db.schema/attribute", vk |-> "", vt |-> v]

\* The entids a caller names: a bootstrapped one and those around the index.
UserEntids == {KnownEntid} \cup (USER0..(USER0 + MaxProbe))

\* The entity batches handed to transact_entities (those of the tests).
Entities ==
    { <<>>,
      <<AddIdent("one", ":a/keyword1"), AddIdent("two", ":a/keyword2")>>,
      <<AddIdent("u", ":a/keyword1"), AddIdent("u", ":a/keyword2")>> }
    \cup { <<AddAttrE(n, "temp")>> : n \in UserEntids }

\* The batches of the tests of tempid allocation, with one that names a
\* tempid twice.
TestEntities ==
    Entities \cup { <<AddAttrT("one", "more")>>,
                    <<AddIdent("one", ":a/keyword1"), AddAttrE(KnownEntid, "one")>> }

\* ------------------------------------------------- parsers (collaborators)
\* A transaction text: its forms, and whether its outer vector is closed.
Text(closed, forms) == [closed |-> closed, forms |-> forms]

Texts ==
    { Text(TRUE, e) : e \in Entities }
    \cup { Text(FALSE, <<AddIdent("t", ":a/keyword1")>>),
           Text(TRUE, <<[AddIdent("t", ":a/keyword2") EXCEPT !.op = FALSE]>>) }

\* edn::parse::value: fails on text that is not one complete value.
edn_parse_value(text) ==
    IF text.closed THEN [ok |-> TRUE, err |-> "", value |-> text.forms]
    ELSE [ok |-> FALSE, err |-> "EdnParseError", value |-> <<>>]

\* mentat_tx_parser::Tx::parse: fails on a form that is not [:db/add e a v].
Tx_parse(value) ==
    IF \A i \in DOMAIN value : value[i].op
    THEN [ok |-> TRUE, err |-> "", entities |-> value]
    ELSE [ok |-> FALSE, err |-> "TxParseError", entities |-> <<>>]

\* The two parses, in the order Conn::transact and InProgress::transact do them.
Parse(text) ==
    LET v == edn_parse_value(text) IN
    IF ~v.ok THEN [ok |-> FALSE, err |-> v.err, entities |-> <<>>]
    ELSE Tx_parse(v.value)

\* ---------------------------------------------- transactor (collaborator)
NoReport == [some |-> FALSE, tx_id |-> 0, tempids |-> {}]
SomeReport(tx, tempids) == [some |-> TRUE, tx_id |-> tx, tempids |-> tempids]

HasIdent(schema, k) == \E p \in schema : p[1] = k
SchemaEntid(schema, k) == (CHOOSE p \in schema : p[1] = k)[2]

\* (variant) A gate that lets the next index through.
Allocated_through_index(pm, n) ==
    \E name \in DOMAIN pm : pm[name].start <= n /\ n <= pm[name].index

\* n lies in the allocated range of some partition.
Allocated(pm, n) ==
    \E name \in DOMAIN pm : pm[name].start <= n /\ n < pm[name].index

FormsOf(entities) == {entities[i] : i \in DOMAIN entities}
TempidsOf(entities) ==
    ({f.et : f \in FormsOf(entities)} \cup {f.vt : f \in FormsOf(entities)}) \ {""}
IdentValues(entities, t) ==
    {f.vk : f \in {g \in FormsOf(entities) : g.et = t /\ g.a = ":db/ident"}}
\* The entids a tempid upserts to through the unique attribute :db/ident.
Upserts(schema, entities, t) ==
    {SchemaEntid(schema, k) : k \in {j \in IdentValues(entities, t) : HasIdent(schema, j)}}
Rank(t) == CHOOSE i \in DOMAIN TempidOrder : TempidOrder[i] = t
FreshTempids(schema, entities) ==
    {t \in TempidsOf(entities) : Upserts(schema, entities, t) = {}}
\* (variant) Every new tempid is given the index itself.
Resolve_at_index(pm, schema, entities, t) ==
    LET up == Upserts(schema, entities, t)
    IN IF up # {} THEN CHOOSE e \in up : TRUE ELSE pm.user.index

\* The entid of a tempid: the one it upserts to, or the next free ones of
\* :db.part/user in the order of the tempids.
Resolve(pm, schema, entities, t) ==
    LET up == Upserts(schema, entities, t)
        fresh == FreshTempids(schema, entities)
    IN IF up # {} THEN CHOOSE e \in up : TRUE
       ELSE pm.user.index + Cardinality({u \in fresh : Rank(u) < Rank(t)})

Datom(e, a, vk, ve, tx) == [e |-> e, a |-> a, vk |-> vk, ve |-> ve, tx |-> tx]

TxFailure(err, n, pm) ==
    [ok |-> FALSE, err |-> err, entid |-> n, report |-> NoReport,
     partition_map |-> pm, schema_changed |-> FALSE, schema |-> {}, datoms |-> {}]

\* mentat_db::transact(conn, partition_map, schema, schema, entities):
\* (report, next_partition_map, next_schema) or an error.
transact(pm, schema, entities) ==
    LET forms == FormsOf(entities)
        unknown == {i \in DOMAIN entities :
                      entities[i].et = "" /\ ~Allocated(pm, entities[i].en)}
        tempids == TempidsOf(entities)
        fresh == FreshTempids(schema, entities)
        tx == pm.tx.index
        E(f) == IF f.et = "" THEN f.en ELSE Resolve(pm, schema, entities, f.et)
        newIdents == {f \in forms : f.a = ":db/ident" /\ ~HasIdent(schema, f.vk)}
    IN
    IF unknown # {}
    THEN TxFailure("UnrecognizedEntid",
                   entities[CHOOSE i \in unknown : \A j \in unknown : i <= j].en, pm)
    ELSE IF \E t \in tempids : Cardinality(IdentValues(entities, t)) > 1
    THEN TxFailure("NotYetImplemented", 0, pm)
    ELSE IF pm.user.index + Cardinality(fresh) > pm.user.end \/ tx >= pm.tx.end
    THEN TxFailure("NotYetImplemented", 0, pm)
    ELSE
      [ok |-> TRUE, err |-> "", entid |-> 0,
       report |-> SomeReport(tx, {<<t, Resolve(pm, schema, entities, t)>> : t \in tempids}),
       partition_map |->
           [pm EXCEPT !.user.index = @ + Cardinality(fresh), !.tx.index = @ + 1],
       schema_changed |-> newIdents # {},
       schema |-> schema \cup {<<f.vk, E(f)>> : f \in newIdents},
       datoms |->
           {Datom(tx, ":db/txInstant", "", 0, tx)} \cup
           {Datom(E(f), f.a, f.vk,
                  IF f.vt = "" THEN 0 ELSE Resolve(pm, schema, entities, f.vt), tx)
              : f \in forms}]

\* The query of the tests, [:find ?x . :where [?x :db/ident k]], over the
\* rows a SQLite connection sees.
q_once(rows, k) == {d.e : d \in {r \in rows : r.a = ":db/ident" /\ r.vk = k}}

\* QueryResults::Scalar of a set of bindings: 0 for None.
Scalar(found) == IF found = {} THEN 0 ELSE CHOOSE x \in found : TRUE

\* mentat_query's q_once(sqlite, schema, query, inputs) for the query of the
\* tests: :db/ident is resolved in the schema, the rows are those the SQLite
\* connection or transaction sees.
query_q_once(rows, schema, k) ==
    IF HasIdent(schema, ":db/ident") THEN Scalar(q_once(rows, k)) ELSE 0

\* mentat_query's lookup_value_for_attribute(sqlite, schema, entity, :db/ident).
query_lookup(rows, schema, e) ==
    LET found == {d.vk : d \in {r \in rows : r.e = e /\ r.a = ":db/ident"}} IN
    IF HasIdent(schema, ":db/ident") /\ found # {} THEN CHOOSE k \in found : TRUE ELSE ""

\* ------------------------------------------------------------------ state
VARIABLES
    metadata,   \* Conn.metadata's Metadata: generation, partition_map, schema (an Arc)
    heap,       \* the Schema each Arc<Schema> allocation holds
    mutex,      \* Conn.metadata's Mutex: its owner (0: free) and whether it is poisoned
    store,      \* the committed rows of the datoms table
    wlock,      \* the connection holding SQLite's write intent (0: none)
    ip,         \* per connection: the InProgress of its thread and where that thread is
    snap,       \* per reader: the Arc<Schema> it holds and the contents it first saw
    outcome,    \* what the call that returned in the last step returned, and to whom
    history     \* the Metadata triples installed so far, oldest first

vars == <<metadata, heap, mutex, store, wlock, ip, snap, outcome, history>>

Triple(m) == <<m.generation, m.partition_map, m.schema>>

\* No InProgress: the thread is between calls.
NoIP ==
    [st |-> "none", generation |-> 0, partition_map |-> InitialPartitionMap,
     schema |-> {}, last_report |-> NoReport, staged |-> {}, calls |-> 0,
     immediate |-> FALSE, oneshot |-> FALSE, pending |-> <<>>,
     begun |-> <<0, InitialPartitionMap, 0>>]

\* No debug view returned: view holds the Schema and the tx a view of
\* db/src/debug.rs was given and the rows it returned.
NoView ==
    [schema |-> [ident_map |-> <<>>, attribute_map |-> <<>>], after |-> 0,
     rows |-> <<>>]

\* What a call returned: to the thread of connection h, from operation op,
\* what the parsers say of the text it was given (parse, "": well-formed or
\* no text), the error ("": Ok),
\* the entid an UnrecognizedEntid error names, the transact_entities calls
\* that had succeeded on the InProgress, and the report returned.
Outcome(h, op, parse, err, n, calls, report) ==
    [h |-> h, op |-> op, parse |-> parse, err |-> err, entid |-> n,
     calls |-> calls, report |-> report, query |-> "", view |-> NoView]
NoOutcome == Outcome(0, "", "", "", 0, 0, NoReport)
Returns(h, op, parse, err, n, calls, report) ==
    outcome' = Outcome(h, op, parse, err, n, calls, report)
NoReturn == outcome' = NoOutcome
\* What a read returned: asked for the entity with :db/ident k it found x
\* (0: None); asked for the :db/ident of x it found k ("": None).
Answers(h, op, k, x, calls) ==
    outcome' = [Outcome(h, op, "", "", x, calls, NoReport) EXCEPT !.query = k]

NoSnap == [ptr |-> 0, copy |-> {}]

\* Conn::new, after db::ensure_current_version on a fresh store.
Init ==
    /\ heap = <<InitialSchema>>
    /\ metadata = [generation |-> 0, partition_map |-> InitialPartitionMap, schema |-> 1]
    /\ mutex = [owner |-> 0, poisoned |-> FALSE]
    /\ store = {}
    /\ wlock = 0
    /\ ip = [h \in Sqlite |-> NoIP]
    /\ snap = [r \in Readers |-> NoSnap]
    /\ outcome = NoOutcome
    /\ history = <<Triple([generation |-> 0, partition_map |-> InitialPartitionMap, schema |-> 1])>>

\* Conn::connect to a store whose earlier transactions (none of which named
\* an ident of Idents) left one entid of :db.part/user to allocate.
InitNearEnd ==
    /\ heap = <<InitialSchema>>
    /\ metadata = [generation |-> 0,
                   partition_map |-> [InitialPartitionMap EXCEPT !.user.index = UserEnd - 1],
                   schema |-> 1]
    /\ mutex = [owner |-> 0, poisoned |-> FALSE]
    /\ store = {}
    /\ wlock = 0
    /\ ip = [h \in Sqlite |-> NoIP]
    /\ snap = [r \in Readers |-> NoSnap]
    /\ outcome = NoOutcome
    /\ history = <<Triple(metadata)>>

\* The call the thread of h is in when its InProgress ends inside commit.
CommitOp(h) == IF ip[h].oneshot THEN "Conn::transact" ELSE "commit"

MutexFree == mutex.owner = 0 /\ ~mutex.poisoned

\* Dropping the rusqlite::Transaction of h without a commit rolls it back:
\* the write intent h holds is released and its staged rows are discarded.
ReleasedBy(h) == IF wlock = h THEN 0 ELSE wlock

\* ------------------------------------------------------- begin_transaction
\* (variant) An open that does not find the store busy.
BeginImmediate_not_exclusive(h, oneshot, entities) ==
    /\ metadata.generation < MaxGeneration
    /\ wlock' = h
    /\ ip' = [ip EXCEPT ![h].st = "begun", ![h].immediate = TRUE,
                        ![h].oneshot = oneshot, ![h].pending = entities]
    /\ NoReturn
    /\ UNCHANGED <<metadata, heap, mutex, store, snap, history>>

\* (variant) A DEFERRED transaction: the write intent is not taken at begin.
BeginImmediate_deferred(h, oneshot, entities) ==
    /\ metadata.generation < MaxGeneration
    /\ ip' = [ip EXCEPT ![h].st = "begun", ![h].immediate = FALSE,
                        ![h].oneshot = oneshot, ![h].pending = entities]
    /\ NoReturn
    /\ UNCHANGED <<metadata, heap, mutex, store, wlock, snap, history>>

\* sqlite.transaction_with_behavior(Immediate)?  SQLite refuses a second
\* IMMEDIATE transaction on the store with SQLITE_BUSY.
BeginImmediate(h, oneshot, entities) ==
    /\ metadata.generation < MaxGeneration
    /\ IF wlock = 0
       THEN /\ wlock' = h
            /\ ip' = [ip EXCEPT ![h].st = "begun", ![h].immediate = TRUE,
                                ![h].oneshot = oneshot, ![h].pending = entities]
            /\ NoReturn
       ELSE /\ Returns(h, IF oneshot THEN "Conn::transact" ELSE "begin_transaction",
                       "", "SqliteBusy", 0, 0, NoReport)
            /\ UNCHANGED <<wlock, ip>>
    /\ UNCHANGED <<metadata, heap, mutex, store, snap, history>>

\* (variant) An InProgress that starts from the partition map read at connect.
BeginSnapshot_from_connect(h) ==
    /\ ip[h].st = "begun"
    /\ MutexFree
    /\ ip' = [ip EXCEPT ![h].st = "active",
                        ![h].generation = metadata.generation,
                        ![h].partition_map = history[1][2],
                        ![h].schema = heap[metadata.schema],
                        ![h].last_report = NoReport,
                        ![h].begun = Triple(metadata)]
    /\ UNCHANGED <<metadata, heap, mutex, store, wlock, snap, history>>
    /\ NoReturn

\* The block that reads the Metadata under the mutex, and the InProgress built
\* from it.
BeginSnapshot(h) ==
    /\ ip[h].st = "begun"
    /\ MutexFree
    /\ ip' = [ip EXCEPT ![h].st = "active",
                        ![h].generation = metadata.generation,
                        ![h].partition_map = metadata.partition_map,
                        ![h].schema = heap[metadata.schema],
                        ![h].last_report = NoReport,
                        ![h].begun = Triple(metadata)]
    /\ UNCHANGED <<metadata, heap, mutex, store, wlock, snap, history>>
    /\ NoReturn

\* ------------------------------------------------------------- InProgress
\* (variant) An error that leaves the InProgress and its transaction alive.
transact_entities_survives(h, entities, op, parse) ==
    LET r == transact(ip[h].partition_map, ip[h].schema, entities) IN
    IF r.ok
    THEN /\ ip' = [ip EXCEPT ![h].partition_map = r.partition_map,
                             ![h].schema = IF r.schema_changed THEN r.schema ELSE @,
                             ![h].last_report = r.report,
                             ![h].staged = @ \cup r.datoms,
                             ![h].calls = @ + 1]
         /\ NoReturn
         /\ UNCHANGED wlock
    ELSE /\ Returns(h, op, parse, r.err, r.entid, ip[h].calls, NoReport)
         /\ UNCHANGED <<ip, wlock>>

\* (variant) An error that forgets the transaction instead of dropping it.
transact_entities_leaks(h, entities, op, parse) ==
    LET r == transact(ip[h].partition_map, ip[h].schema, entities) IN
    IF r.ok
    THEN /\ ip' = [ip EXCEPT ![h].partition_map = r.partition_map,
                             ![h].schema = IF r.schema_changed THEN r.schema ELSE @,
                             ![h].last_report = r.report,
                             ![h].staged = @ \cup r.datoms,
                             ![h].calls = @ + 1]
         /\ NoReturn
         /\ UNCHANGED wlock
    ELSE /\ ip' = [ip EXCEPT ![h] = NoIP]
         /\ Returns(h, op, parse, r.err, r.entid, ip[h].calls, NoReport)
         /\ UNCHANGED wlock

\* (variant) An InProgress that keeps the first report it was given.
transact_entities_keeps_first(h, entities, op, parse) ==
    LET r == transact(ip[h].partition_map, ip[h].schema, entities) IN
    IF r.ok
    THEN /\ ip' = [ip EXCEPT ![h].partition_map = r.partition_map,
                             ![h].schema = IF r.schema_changed THEN r.schema ELSE @,
                             ![h].last_report = IF @.some THEN @ ELSE r.report,
                             ![h].staged = @ \cup r.datoms,
                             ![h].calls = @ + 1]
         /\ NoReturn
         /\ UNCHANGED wlock
    ELSE /\ ip' = [ip EXCEPT ![h] = NoIP]
         /\ wlock' = ReleasedBy(h)
         /\ Returns(h, op, parse, r.err, r.entid, ip[h].calls, NoReport)

\* (variant) Every call transacts against the partition map and schema read
\* at begin_transaction instead of those the previous call produced.
transact_entities_from_snapshot(h, entities, op, parse) ==
    LET r == transact(ip[h].begun[2], heap[ip[h].begun[3]], entities) IN
    IF r.ok
    THEN /\ ip' = [ip EXCEPT ![h].partition_map = r.partition_map,
                             ![h].schema = IF r.schema_changed THEN r.schema ELSE @,
                             ![h].last_report = r.report,
                             ![h].staged = @ \cup r.datoms,
                             ![h].calls = @ + 1]
         /\ NoReturn
         /\ UNCHANGED wlock
    ELSE /\ ip' = [ip EXCEPT ![h] = NoIP]
         /\ wlock' = ReleasedBy(h)
         /\ Returns(h, op, parse, r.err, r.entid, ip[h].calls, NoReport)

\* transact_entities: on an error the InProgress, moved into the call, is
\* dropped with its transaction.
transact_entities(h, entities, op, parse) ==
    LET r == transact(ip[h].partition_map, ip[h].schema, entities) IN
    IF r.ok
    THEN /\ ip' = [ip EXCEPT ![h].partition_map = r.partition_map,
                             ![h].schema = IF r.schema_changed THEN r.schema ELSE @,
                             ![h].last_report = r.report,
                             ![h].staged = @ \cup r.datoms,
                             ![h].calls = @ + 1]
         /\ NoReturn
         /\ UNCHANGED wlock
    ELSE /\ ip' = [ip EXCEPT ![h] = NoIP]
         /\ wlock' = ReleasedBy(h)
         /\ Returns(h, op, parse, r.err, r.entid, ip[h].calls, NoReport)

TransactEntities(h) ==
    /\ ip[h].st = "active"
    /\ ip[h].partition_map.tx.index <= TX0 + MaxTx
    /\ IF ip[h].oneshot
       THEN /\ ip[h].calls = 0
            /\ transact_entities(h, ip[h].pending, "Conn::transact", "")
       ELSE \E entities \in Entities : transact_entities(h, entities, "transact_entities", "")
    /\ UNCHANGED <<metadata, heap, mutex, store, snap, history>>

\* InProgress::transact: the two parses, then transact_entities.
InProgressTransact(h) ==
    /\ ip[h].st = "active"
    /\ ~ip[h].oneshot
    /\ ip[h].partition_map.tx.index <= TX0 + MaxTx
    /\ \E text \in Texts :
         LET p == Parse(text) IN
         IF p.ok
         THEN transact_entities(h, p.entities, "transact", "")
         ELSE /\ ip' = [ip EXCEPT ![h] = NoIP]
              /\ wlock' = ReleasedBy(h)
              /\ Returns(h, "transact", p.err, p.err, 0, ip[h].calls, NoReport)
    /\ UNCHANGED <<metadata, heap, mutex, store, snap, history>>

\* (variant) A rollback that commits the transaction.
rollback_commits(h, err) ==
    /\ ip' = [ip EXCEPT ![h] = NoIP]
    /\ wlock' = ReleasedBy(h)
    /\ store' = store \cup ip[h].staged
    /\ Returns(h, "rollback", "", err, 0, ip[h].calls, NoReport)
    /\ UNCHANGED <<metadata, heap, mutex, snap, history>>

\* (variant) A rollback that borrows the InProgress instead of taking it.
rollback_borrows(h, err) ==
    /\ ip' = [ip EXCEPT ![h].staged = {}]
    /\ wlock' = ReleasedBy(h)
    /\ Returns(h, "rollback", "", err, 0, ip[h].calls, NoReport)
    /\ UNCHANGED <<metadata, heap, mutex, store, snap, history>>

\* rollback: self.transaction.rollback(), whose result is the call's.
rollback(h, err) ==
    /\ ip' = [ip EXCEPT ![h] = NoIP]
    /\ wlock' = ReleasedBy(h)
    /\ Returns(h, "rollback", "", err, 0, ip[h].calls, NoReport)
    /\ UNCHANGED <<metadata, heap, mutex, store, snap, history>>

Rollback(h) ==
    /\ ip[h].st = "active"
    /\ ~ip[h].oneshot
    /\ \E err \in {"", "SqliteFailure"} : rollback(h, err)

\* The InProgress goes out of scope: "Your changes will be implicitly dropped
\* along with this struct."
Drop(h) ==
    /\ ip[h].st = "active"
    /\ ~ip[h].oneshot
    /\ ip' = [ip EXCEPT ![h] = NoIP]
    /\ wlock' = ReleasedBy(h)
    /\ Returns(h, "drop", "", "", 0, ip[h].calls, NoReport)
    /\ UNCHANGED <<metadata, heap, mutex, store, snap, history>>

\* ------------------------------------------------------ InProgress::commit
\* (variant) A commit that returns at once when nothing was transacted.
CommitLock_skips_empty(h) ==
    /\ ip[h].st = "active"
    /\ ip[h].oneshot => ip[h].calls = 1
    /\ MutexFree
    /\ IF ip[h].generation # metadata.generation
       THEN /\ ip' = [ip EXCEPT ![h] = NoIP]
            /\ wlock' = ReleasedBy(h)
            /\ Returns(h, CommitOp(h), "", "LostTransactRace", 0, ip[h].calls, NoReport)
            /\ UNCHANGED mutex
       ELSE IF ~ip[h].last_report.some
       THEN /\ ip' = [ip EXCEPT ![h] = NoIP]
            /\ wlock' = ReleasedBy(h)
            /\ Returns(h, CommitOp(h), "", "", 0, ip[h].calls, NoReport)
            /\ UNCHANGED mutex
       ELSE /\ ip' = [ip EXCEPT ![h].st = "locked"]
            /\ mutex' = [mutex EXCEPT !.owner = h]
            /\ NoReturn
            /\ UNCHANGED wlock
    /\ UNCHANGED <<metadata, heap, store, snap, history>>

\* (variant) A commit that does not compare the generations.
CommitLock_unchecked(h) ==
    /\ ip[h].st = "active"
    /\ ip[h].oneshot => ip[h].calls = 1
    /\ MutexFree
    /\ ip' = [ip EXCEPT ![h].st = "locked"]
    /\ mutex' = [mutex EXCEPT !.owner = h]
    /\ NoReturn
    /\ UNCHANGED <<metadata, heap, store, wlock, snap, history>>

\* (variant) A commit that lets go of the mutex after the generation check.
CommitLock_unlocked(h) ==
    /\ ip[h].st = "active"
    /\ ip[h].oneshot => ip[h].calls = 1
    /\ MutexFree
    /\ IF ip[h].generation # metadata.generation
       THEN /\ ip' = [ip EXCEPT ![h] = NoIP]
            /\ wlock' = ReleasedBy(h)
            /\ Returns(h, CommitOp(h), "", "LostTransactRace", 0, ip[h].calls, NoReport)
       ELSE /\ ip' = [ip EXCEPT ![h].st = "locked"]
            /\ NoReturn
            /\ UNCHANGED wlock
    /\ UNCHANGED <<metadata, heap, mutex, store, snap, history>>

\* self.mutex.lock().unwrap(), then the generation check.  bail! returns with
\* the guard and the InProgress dropped.
CommitLock(h) ==
    /\ ip[h].st = "active"
    /\ ip[h].oneshot => ip[h].calls = 1
    /\ MutexFree
    /\ IF ip[h].generation # metadata.generation
       THEN /\ ip' = [ip EXCEPT ![h] = NoIP]
            /\ wlock' = ReleasedBy(h)
            /\ Returns(h, CommitOp(h), "", "LostTransactRace", 0, ip[h].calls, NoReport)
            /\ UNCHANGED mutex
       ELSE /\ ip' = [ip EXCEPT ![h].st = "locked"]
            /\ mutex' = [mutex EXCEPT !.owner = h]
            /\ NoReturn
            /\ UNCHANGED wlock
    /\ UNCHANGED <<metadata, heap, store, snap, history>>

\* (variant) A commit whose guard is dropped once SQLite has committed.
CommitSubstrate_unlocks(h) ==
    /\ ip[h].st = "locked"
    /\ \E ok \in BOOLEAN :
         IF ok
         THEN /\ store' = store \cup ip[h].staged
              /\ wlock' = ReleasedBy(h)
              /\ ip' = [ip EXCEPT ![h].st = "committed", ![h].immediate = FALSE]
              /\ NoReturn
         ELSE /\ ip' = [ip EXCEPT ![h] = NoIP]
              /\ wlock' = ReleasedBy(h)
              /\ Returns(h, CommitOp(h), "", "SqliteFailure", 0, ip[h].calls, NoReport)
              /\ UNCHANGED store
    /\ mutex' = [mutex EXCEPT !.owner = 0]
    /\ UNCHANGED <<metadata, heap, snap, history>>

\* (variant) A commit that advances the generation before the SQLite commit.
CommitSubstrate_installs_first(h) ==
    /\ ip[h].st = "locked"
    /\ \E ok \in BOOLEAN :
         IF ok
         THEN /\ store' = store \cup ip[h].staged
              /\ wlock' = ReleasedBy(h)
              /\ ip' = [ip EXCEPT ![h].st = "generation", ![h].immediate = FALSE]
              /\ metadata' = [metadata EXCEPT !.generation = @ + 1]
              /\ NoReturn
              /\ UNCHANGED mutex
         ELSE /\ ip' = [ip EXCEPT ![h] = NoIP]
              /\ wlock' = ReleasedBy(h)
              /\ mutex' = [mutex EXCEPT !.owner = 0]
              /\ metadata' = [metadata EXCEPT !.generation = @ + 1]
              /\ Returns(h, CommitOp(h), "", "SqliteFailure", 0, ip[h].calls, NoReport)
              /\ UNCHANGED store
    /\ UNCHANGED <<heap, snap, history>>

\* self.transaction.commit()?  An error returns with the guard dropped; the
\* transaction, consumed by commit, rolls back when it is dropped.
CommitSubstrate(h) ==
    /\ ip[h].st = "locked"
    /\ \E ok \in BOOLEAN :
         IF ok
         THEN /\ store' = store \cup ip[h].staged
              /\ wlock' = ReleasedBy(h)
              /\ ip' = [ip EXCEPT ![h].st = "committed", ![h].immediate = FALSE]
              /\ NoReturn
              /\ UNCHANGED mutex
         ELSE /\ ip' = [ip EXCEPT ![h] = NoIP]
              /\ wlock' = ReleasedBy(h)
              /\ mutex' = [mutex EXCEPT !.owner = 0]
              /\ Returns(h, CommitOp(h), "", "SqliteFailure", 0, ip[h].calls, NoReport)
              /\ UNCHANGED store
    /\ UNCHANGED <<metadata, heap, snap, history>>

\* (variant) A commit that leaves the generation as it is.
CommitGeneration_skipped(h) ==
    /\ ip[h].st = "committed"
    /\ ip' = [ip EXCEPT ![h].st = "generation"]
    /\ NoReturn
    /\ UNCHANGED <<metadata, heap, mutex, store, wlock, snap, history>>

\* metadata.generation += 1;
CommitGeneration(h) ==
    /\ ip[h].st = "committed"
    /\ metadata' = [metadata EXCEPT !.generation = @ + 1]
    /\ ip' = [ip EXCEPT ![h].st = "generation"]
    /\ UNCHANGED <<heap, mutex, store, wlock, snap, history>>
    /\ NoReturn

\* (variant) A commit that leaves the partition map as it is.
CommitPartitionMap_skipped(h) ==
    /\ ip[h].st = "generation"
    /\ ip' = [ip EXCEPT ![h].st = "partition_map"]
    /\ UNCHANGED <<metadata, heap, mutex, store, wlock, snap, history>>
    /\ NoReturn

\* metadata.partition_map = self.partition_map;
CommitPartitionMap(h) ==
    /\ ip[h].st = "generation"
    /\ metadata' = [metadata EXCEPT !.partition_map = ip[h].partition_map]
    /\ ip' = [ip EXCEPT ![h].st = "partition_map"]
    /\ UNCHANGED <<heap, mutex, store, wlock, snap, history>>
    /\ NoReturn

\* (variant) A commit that installs a new Arc whatever the schema.
CommitSchema_always_new(h) ==
    /\ ip[h].st = "partition_map"
    /\ heap' = Append(heap, ip[h].schema)
    /\ metadata' = [metadata EXCEPT !.schema = Len(heap) + 1]
    /\ mutex' = [mutex EXCEPT !.owner = 0]
    /\ ip' = [ip EXCEPT ![h] = NoIP]
    /\ Returns(h, CommitOp(h), "", "", 0, ip[h].calls, ip[h].last_report)
    /\ history' = Append(history, Triple(metadata'))
    /\ UNCHANGED <<store, wlock, snap>>

\* (variant) A commit that writes the new schema through the shared Arc.
CommitSchema_in_place(h) ==
    /\ ip[h].st = "partition_map"
    /\ heap' = [heap EXCEPT ![metadata.schema] = ip[h].schema]
    /\ mutex' = [mutex EXCEPT !.owner = 0]
    /\ ip' = [ip EXCEPT ![h] = NoIP]
    /\ Returns(h, CommitOp(h), "", "", 0, ip[h].calls, ip[h].last_report)
    /\ history' = Append(history, Triple(metadata))
    /\ UNCHANGED <<metadata, store, wlock, snap>>

\* if self.schema != *(metadata.schema) { metadata.schema = Arc::new(self.schema); }
\* Ok(self.last_report), the guard dropped.
CommitSchema(h) ==
    /\ ip[h].st = "partition_map"
    /\ IF ip[h].schema # heap[metadata.schema]
       THEN /\ heap' = Append(heap, ip[h].schema)
            /\ metadata' = [metadata EXCEPT !.schema = Len(heap) + 1]
       ELSE UNCHANGED <<heap, metadata>>
    /\ mutex' = [mutex EXCEPT !.owner = 0]
    /\ ip' = [ip EXCEPT ![h] = NoIP]
    /\ Returns(h, CommitOp(h), "", "", 0, ip[h].calls, ip[h].last_report)
    /\ history' = Append(history, Triple(metadata'))
    /\ UNCHANGED <<store, wlock, snap>>

\* -------------------------------------------------------------------- Conn
\* begin_transaction, called by the embedder.
BeginTransaction(h) ==
    /\ ip[h].st = "none"
    /\ BeginImmediate(h, FALSE, <<>>)

\* (variant) A Conn::transact that parses inside the SQL transaction.
ConnTransact_opens_first(h) ==
    /\ ip[h].st = "none"
    /\ \E text \in Texts :
         LET p == Parse(text) IN
         IF wlock # 0
         THEN /\ metadata.generation < MaxGeneration
              /\ Returns(h, "Conn::transact", p.err, "SqliteBusy", 0, 0, NoReport)
              /\ UNCHANGED <<metadata, heap, mutex, store, wlock, ip, snap, history>>
         ELSE IF p.ok
         THEN BeginImmediate(h, TRUE, p.entities)
         ELSE /\ metadata.generation < MaxGeneration
              /\ Returns(h, "Conn::transact", p.err, p.err, 0, 0, NoReport)
              /\ UNCHANGED <<metadata, heap, mutex, store, wlock, ip, snap, history>>

\* Conn::transact: the two parses, outside any SQL transaction; then
\* begin_transaction, transact_entities and commit, which the thread goes
\* through with nothing else of its own in between.
ConnTransactText(h, text) ==
    LET p == Parse(text) IN
    IF p.ok
    THEN BeginImmediate(h, TRUE, p.entities)
    ELSE /\ metadata.generation < MaxGeneration
         /\ Returns(h, "Conn::transact", p.err, p.err, 0, 0, NoReport)
         /\ UNCHANGED <<metadata, heap, mutex, store, wlock, ip, snap, history>>

ConnTransact(h) ==
    /\ ip[h].st = "none"
    /\ \E text \in Texts : ConnTransactText(h, text)

\* Conn::transact, given the texts of the tests of tempid allocation.
ConnTransactTests(h) ==
    /\ ip[h].st = "none"
    /\ \E entities \in TestEntities : ConnTransactText(h, Text(TRUE, entities))

\* current_schema: self.metadata.lock().unwrap().schema.clone()
CurrentSchema(r) ==
    /\ MutexFree
    /\ snap' = [snap EXCEPT ![r] = [ptr |-> metadata.schema, copy |-> heap[metadata.schema]]]
    /\ UNCHANGED <<metadata, heap, mutex, store, wlock, ip, history>>
    /\ NoReturn

\* --------------------------------------------------------------------- reads
\* The entities looked up: those a first transaction can allocate.
LookupEntids == USER0..(USER0 + 1)

\* (variant) A read of the InProgress that goes to the committed rows.
InProgressQOnce_committed(h) ==
    /\ ip[h].st = "active"
    /\ ~ip[h].oneshot
    /\ \E k \in Idents :
         Answers(h, "InProgress::q_once", k, query_q_once(store, ip[h].schema, k), ip[h].calls)
    /\ UNCHANGED <<metadata, heap, mutex, store, wlock, ip, snap, history>>

\* InProgress::q_once: the query runs on self.transaction with self.schema.
InProgressQOnce(h) ==
    /\ ip[h].st = "active"
    /\ ~ip[h].oneshot
    /\ \E k \in Idents :
         Answers(h, "InProgress::q_once", k,
                 query_q_once(store \cup ip[h].staged, ip[h].schema, k), ip[h].calls)
    /\ UNCHANGED <<metadata, heap, mutex, store, wlock, ip, snap, history>>

\* InProgress::lookup_value_for_attribute, likewise.
InProgressLookup(h) ==
    /\ ip[h].st = "active"
    /\ ~ip[h].oneshot
    /\ \E e \in LookupEntids :
         Answers(h, "InProgress::lookup_value_for_attribute",
                 query_lookup(store \cup ip[h].staged, ip[h].schema, e), e, ip[h].calls)
    /\ UNCHANGED <<metadata, heap, mutex, store, wlock, ip, snap, history>>

\* InProgress::last_report: self.last_report.as_ref()
LastReport(h) ==
    /\ ip[h].st = "active"
    /\ ~ip[h].oneshot
    /\ Returns(h, "last_report", "", "", 0, ip[h].calls, ip[h].last_report)
    /\ UNCHANGED <<metadata, heap, mutex, store, wlock, ip, snap, history>>

\* Conn::q_once on a SQLite connection with no transaction of its own: the
\* schema is the one current_schema returns, the rows are the committed ones.
ConnQOnce(h) ==
    /\ ip[h].st = "none"
    /\ MutexFree
    /\ \E k \in Idents :
         Answers(h, "Conn::q_once", k, query_q_once(store, heap[metadata.schema], k), 0)
    /\ UNCHANGED <<metadata, heap, mutex, store, wlock, ip, snap, history>>

\* Conn::lookup_value_for_attribute, likewise.
ConnLookup(h) ==
    /\ ip[h].st = "none"
    /\ MutexFree
    /\ \E e \in LookupEntids :
         Answers(h, "Conn::lookup_value_for_attribute",
                 query_lookup(store, heap[metadata.schema], e), e, 0)
    /\ UNCHANGED <<metadata, heap, mutex, store, wlock, ip, snap, history>>

\* A connection whose IMMEDIATE does not exclude the other writers (a
\* substrate configuration error, a path that bypasses IMMEDIATE).
BeginNonCore(h) ==
    /\ ip[h].st = "none"
    /\ metadata.generation < MaxGeneration
    /\ ip' = [ip EXCEPT ![h].st = "begun"]
    /\ UNCHANGED <<metadata, heap, mutex, store, wlock, snap, history>>
    /\ NoReturn

\* ---------------------------------------------------------- debug inspector
\* (db/src/debug.rs)  The views read three tables of the store through a
\* rusqlite connection, and are given the Schema to read them with.

\* entids::DB_TX_INSTANT, and the value_type_tag of ValueType::Ref, of
\* ValueType::Long, and of the rows of a fulltext attribute, whose v is the
\* rowid of the string in fulltext_values.
DB_TX_INSTANT == 3
RefTag == 0
LongTag == 5
FulltextTag == 10

\* A Schema: get_ident is ident_map, require_attribute_for_entid looks into
\* attribute_map.
DebugSchema ==
    [ident_map |-> (3 :> ":db/txInstant" @@ 97 :> ":test/long"
                    @@ 98 :> ":test/fulltext" @@ 99 :> ":test/ref"),
     attribute_map |-> (3 :> [fulltext |-> FALSE] @@ 97 :> [fulltext |-> FALSE]
                        @@ 98 :> [fulltext |-> TRUE] @@ 99 :> [fulltext |-> FALSE])]

\* The Schema as it was before :test/fulltext was transacted.
StaleSchema ==
    [ident_map |-> (3 :> ":db/txInstant" @@ 97 :> ":test/long" @@ 99 :> ":test/ref"),
     attribute_map |-> (3 :> [fulltext |-> FALSE] @@ 97 :> [fulltext |-> FALSE]
                        @@ 99 :> [fulltext |-> FALSE])]

Schemas == {DebugSchema, StaleSchema}

\* A row of the transactions table; a row of the datoms table has no added.
Row(e, a, v, value_type_tag, tx, added) ==
    [e |-> e, a |-> a, v |-> v, value_type_tag |-> value_type_tag, tx |-> tx,
     added |-> added]
DatomsRow(r) ==
    [e |-> r.e, a |-> r.a, v |-> r.v, value_type_tag |-> r.value_type_tag, tx |-> r.tx]

\* The rows the bootstrap transaction wrote, and the rows two later
\* transactions may have written: each its :db/txInstant, assertions of a
\* long, of two refs (to an entity without an ident, to one with) and of two
\* fulltext strings, the retraction of the long, and a long retracted by the
\* transaction that asserts it.
BootstrapRows ==
    {Row(TX0, DB_TX_INSTANT, 0, LongTag, TX0, TRUE),
     Row(3, 99, 97, RefTag, TX0, TRUE)}
LaterRows ==
    {Row(TX0 + 1, DB_TX_INSTANT, 1, LongTag, TX0 + 1, TRUE),
     Row(USER0, 98, 1, FulltextTag, TX0 + 1, TRUE),
     Row(USER0, 97, 5, LongTag, TX0 + 1, TRUE),
     Row(USER0 + 1, 99, USER0, RefTag, TX0 + 1, TRUE),
     Row(TX0 + 2, DB_TX_INSTANT, 2, LongTag, TX0 + 2, TRUE),
     Row(USER0, 97, 5, LongTag, TX0 + 2, FALSE),
     Row(USER0, 97, 6, LongTag, TX0 + 2, TRUE),
     Row(USER0, 97, 6, LongTag, TX0 + 2, FALSE),
     Row(USER0 + 1, 99, 97, RefTag, TX0 + 2, TRUE),
     Row(USER0 + 1, 98, 2, FulltextTag, TX0 + 2, TRUE)}

SameDatom(r, q) == r.e = q.e /\ r.a = q.a /\ r.v = q.v

\* What the transactor leaves in the transactions table: the bootstrap
\* transaction, a :db/txInstant for each later transaction that wrote, and
\* no retraction of what was not asserted.
Logs ==
    {BootstrapRows \cup s : s \in
       {s \in SUBSET LaterRows :
          /\ \A r \in s : \E i \in s : i.a = DB_TX_INSTANT /\ i.tx = r.tx
          /\ \A i \in s : i.a = DB_TX_INSTANT => \E r \in s : r.tx = i.tx /\ r # i
          /\ \A r \in s : ~r.added =>
               \E q \in s : q.added /\ SameDatom(q, r) /\ q.tx <= r.tx}}

\* The tables of a store with that log: datoms holds the assertions no
\* retraction followed, fulltext_values the strings by rowid.
Tables(log) ==
    [transactions |-> log,
     datoms |-> {DatomsRow(r) : r \in
                   {r \in log : /\ r.added
                                /\ ~\E q \in log : /\ ~q.added
                                                   /\ SameDatom(q, r)
                                                   /\ q.tx >= r.tx}},
     fulltext_values |-> <<"test this", "and that">>]

\* SQL's ORDER BY c1 ASC, c2 ASC, ...: the rows, each before the rows whose
\* columns (order[r], the ORDER BY columns of r in turn) come later.
RECURSIVE Before(_, _)
Before(k, l) ==
    IF k = <<>> \/ l = <<>> THEN FALSE
    ELSE IF Head(k) # Head(l) THEN Head(k) < Head(l)
    ELSE Before(Tail(k), Tail(l))

RECURSIVE OrderBy(_, _)
OrderBy(rows, order) ==
    IF rows = {} THEN <<>>
    ELSE LET first == CHOOSE r \in rows :
                        \A q \in rows : ~Before(order[q], order[r])
         IN <<first>> \o OrderBy(rows \ {first}, order)

\* SQLite stores a bool as 0 or 1.
Stored(added) == IF added THEN 1 ELSE 0

\* (variant) the transactions ordered as the datoms are, e first.
transactions_order_as_datoms(rows) ==
    [r \in rows |-> <<r.e, r.a, r.value_type_tag, r.v, r.tx, Stored(r.added)>>]
\* ORDER BY tx ASC, e ASC, a ASC, value_type_tag ASC, v ASC, added ASC
transactions_order(rows) ==
    [r \in rows |-> <<r.tx, r.e, r.a, r.value_type_tag, r.v, Stored(r.added)>>]

\* ORDER BY e ASC, a ASC, value_type_tag ASC, v ASC, tx ASC
datoms_order(rows) ==
    [r \in rows |-> <<r.e, r.a, r.value_type_tag, r.v, r.tx>>]

\* edn::Value and Entid: an integer or a name.
EdnInteger(n) == [edn |-> "Integer", n |-> n, name |-> ""]
EdnKeyword(k) == [edn |-> "Keyword", n |-> 0, name |-> k]
EdnText(s) == [edn |-> "Text", n |-> 0, name |-> s]
EntidEntid(n) == [ident |-> "", entid |-> n]
EntidIdent(k) == [ident |-> k, entid |-> 0]

get_ident(schema, e) ==
    IF e \in DOMAIN schema.ident_map THEN schema.ident_map[e] ELSE ""

\* TypedValue::from_sql_value_pair of an integer v: a Ref or a Long; no
\* other tag goes with an integer.
from_sql_value_pair(v, value_type_tag) ==
    IF value_type_tag = RefTag THEN [err |-> "", type |-> "Ref", v |-> v]
    ELSE IF value_type_tag = LongTag THEN [err |-> "", type |-> "Long", v |-> v]
    ELSE [err |-> "BadSQLValuePair", type |-> "", v |-> v]

\* A Ref to an entity with an ident becomes that Keyword.
map_ident(typed_value, schema) ==
    IF typed_value.type = "Ref" /\ get_ident(schema, typed_value.v) # ""
    THEN [typed_value EXCEPT !.type = "Keyword"]
    ELSE typed_value

\* TypedValue::to_edn_value_pair: the edn::Value and the ValueType.
to_edn_value_pair(typed_value, schema) ==
    IF typed_value.type = "Keyword"
    THEN <<EdnKeyword(get_ident(schema, typed_value.v)), "Keyword">>
    ELSE <<EdnInteger(typed_value.v), typed_value.type>>

to_entid(schema, entid) ==
    IF get_ident(schema, entid) # "" THEN EntidIdent(get_ident(schema, entid))
    ELSE EntidEntid(entid)

\* (variant) every row is read with the long tag.
value_type_tag_all_long(schema, row) ==
    LongTag
\* The tag a row's v is read with: the long tag for a fulltext attribute.
value_type_tag(schema, row) ==
    IF ~schema.attribute_map[row.a].fulltext THEN row.value_type_tag ELSE LongTag

\* Datom.added, an Option<bool>: "None" or
Some(added) == IF added THEN "Some(true)" ELSE "Some(false)"

\* The closure given to query_and_then, of one row: Ok(Some(Datom)), Ok(None)
\* (skip) or an Err.  added is "None" in datoms_after, Some(added) in
\* transactions_after, which skips no row.
NoDatom == [e |-> EntidEntid(0), a |-> EntidEntid(0), v |-> EdnInteger(0),
            tx |-> 0, added |-> "None"]
query_and_then(schema, row, skips, added) ==
    IF skips /\ row.a = DB_TX_INSTANT
    THEN [err |-> "", some |-> FALSE, datom |-> NoDatom]
    ELSE IF row.a \notin DOMAIN schema.attribute_map
    THEN [err |-> "UnknownAttribute", some |-> FALSE, datom |-> NoDatom]
    ELSE LET sql == from_sql_value_pair(row.v, value_type_tag(schema, row))
         IN IF sql.err # ""
            THEN [err |-> sql.err, some |-> FALSE, datom |-> NoDatom]
            ELSE [err |-> "", some |-> TRUE,
                  datom |-> [e |-> EntidEntid(row.e),
                             a |-> to_entid(schema, row.a),
                             v |-> to_edn_value_pair(
                                     map_ident(sql, schema), schema)[1],
                             tx |-> row.tx,
                             added |-> added]]

\* collect() into a Result<Vec<_>>: the first Err, or every Ok in turn.
FirstErr(r) ==
    IF \E i \in 1..Len(r) : r[i].err # ""
    THEN r[CHOOSE i \in 1..Len(r) :
             r[i].err # "" /\ \A j \in 1..(i - 1) : r[j].err = ""].err
    ELSE ""

RECURSIVE filter_map(_)
filter_map(r) ==
    IF r = <<>> THEN <<>>
    ELSE IF r[1].some THEN <<r[1].datom>> \o filter_map(Tail(r))
    ELSE filter_map(Tail(r))

\* What a view returns: an error, or the Datoms (datoms, datoms_after), the
\* Transactions (transactions_after) or the FulltextValues.
Result(err, rows) == [err |-> err, rows |-> IF err = "" THEN rows ELSE <<>>]

\* (variant) WHERE tx >= ?
datoms_after_from(conn, schema, tx) ==
    LET rows == OrderBy({row \in conn.datoms : row.tx >= tx},
                        datoms_order(conn.datoms))
        r == [i \in 1..Len(rows) |-> query_and_then(schema, rows[i], TRUE, "None")]
    IN Result(FirstErr(r), filter_map(r))
\* SELECT ... FROM datoms WHERE tx > ? ORDER BY ..., each row through the
\* closure, the rows it skipped dropped.
datoms_after(conn, schema, tx) ==
    LET rows == OrderBy({row \in conn.datoms : row.tx > tx},
                        datoms_order(conn.datoms))
        r == [i \in 1..Len(rows) |-> query_and_then(schema, rows[i], TRUE, "None")]
    IN Result(FirstErr(r), filter_map(r))

datoms(conn, schema) == datoms_after(conn, schema, TX0 - 1)

\* Itertools::group_by: the runs of consecutive datoms of one tx.
RECURSIVE group_by(_)
group_by(r) ==
    IF r = <<>> THEN <<>>
    ELSE LET n == CHOOSE n \in 1..Len(r) :
                    /\ \A i \in 1..n : r[i].tx = r[1].tx
                    /\ n = Len(r) \/ r[n + 1].tx # r[1].tx
         IN <<SubSeq(r, 1, n)>> \o group_by(SubSeq(r, n + 1, Len(r)))

transactions_after(conn, schema, tx) ==
    LET rows == OrderBy({row \in conn.transactions : row.tx > tx},
                        transactions_order(conn.transactions))
        r == [i \in 1..Len(rows) |->
                query_and_then(schema, rows[i], FALSE, Some(rows[i].added))]
    IN Result(FirstErr(r), group_by(filter_map(r)))

\* SELECT rowid, text FROM fulltext_values ORDER BY rowid
fulltext_values(conn) ==
    Result("", [rowid \in 1..Len(conn.fulltext_values) |->
                  <<rowid, conn.fulltext_values[rowid]>>])

\* The transactions a view is asked to start after.
AfterTx == (TX0 - 1)..(TX0 + MaxTx)

\* What a view returned: the view, the Schema and the tx it was given, and
\* its Result.
Viewed(op, schema, tx, result) ==
    outcome' = [NoOutcome EXCEPT !.op = op, !.err = result.err,
                                 !.view = [schema |-> schema, after |-> tx,
                                           rows |-> result.rows]]

Datoms ==
    /\ \E schema \in Schemas :
         Viewed("datoms", schema, TX0 - 1, datoms(store, schema))
    /\ UNCHANGED <<metadata, heap, mutex, store, wlock, ip, snap, history>>

DatomsAfter ==
    /\ \E schema \in Schemas, tx \in AfterTx :
         Viewed("datoms_after", schema, tx, datoms_after(store, schema, tx))
    /\ UNCHANGED <<metadata, heap, mutex, store, wlock, ip, snap, history>>

TransactionsAfter ==
    /\ \E schema \in Schemas, tx \in AfterTx :
         Viewed("transactions_after", schema, tx,
                transactions_after(store, schema, tx))
    /\ UNCHANGED <<metadata, heap, mutex, store, wlock, ip, snap, history>>

FulltextValues ==
    /\ Viewed("fulltext_values", DebugSchema, 0, fulltext_values(store))
    /\ UNCHANGED <<metadata, heap, mutex, store, wlock, ip, snap, history>>

\* The partition map of a store with that log: the next tx and the next
\* entid of :db.part/user follow those the log names.
Following(log, partition) ==
    LET used == {n \in {r.e : r \in log} \cup {r.tx : r \in log} :
                   partition.start <= n /\ n <= partition.end}
    IN IF used = {} THEN partition.index
       ELSE 1 + CHOOSE n \in used : \A m \in used : m <= n
PartitionMapOf(log) ==
    [InitialPartitionMap EXCEPT
       !.user.index = Following(log, InitialPartitionMap.user),
       !.tx.index = Following(log, InitialPartitionMap.tx)]

\* A store earlier transactions wrote to, no transaction open on it.
InitDebug ==
    /\ heap = <<InitialSchema>>
    /\ store \in {Tables(log) : log \in Logs}
    /\ metadata = [generation |-> 0,
                   partition_map |-> PartitionMapOf(store.transactions),
                   schema |-> 1]
    /\ mutex = [owner |-> 0, poisoned |-> FALSE]
    /\ wlock = 0
    /\ ip = [h \in Sqlite |-> NoIP]
    /\ snap = [r \in Readers |-> NoSnap]
    /\ outcome = NoOutcome
    /\ history = <<Triple(metadata)>>

\* ---------------------------------------------------------- specifications
Next ==
    \/ \E h \in Sqlite : BeginTransaction(h)
    \/ \E h \in Sqlite : BeginSnapshot(h)
    \/ \E h \in Sqlite : TransactEntities(h)
    \/ \E h \in Sqlite : InProgressTransact(h)
    \/ \E h \in Sqlite : Rollback(h)
    \/ \E h \in Sqlite : Drop(h)
    \/ \E h \in Sqlite : CommitLock(h)
    \/ \E h \in Sqlite : CommitSubstrate(h)
    \/ \E h \in Sqlite : CommitGeneration(h)
    \/ \E h \in Sqlite : CommitPartitionMap(h)
    \/ \E h \in Sqlite : CommitSchema(h)
    \/ \E h \in Sqlite : ConnTransact(h)
    \/ \E r \in Readers : CurrentSchema(r)

\* Every writer goes through begin_transaction.
Spec == Init /\ [][Next]_vars

\* Connection 1 writes through begin_transaction; connection 2 is the one
\* that bypasses IMMEDIATE, and commits without transacting.
NextNonCore ==
    \/ BeginTransaction(1)
    \/ BeginNonCore(2)
    \/ \E h \in Sqlite : BeginSnapshot(h)
    \/ TransactEntities(1)
    \/ Rollback(1)
    \/ \E h \in Sqlite : CommitLock(h)
    \/ \E h \in Sqlite : CommitSubstrate(h)
    \/ \E h \in Sqlite : CommitGeneration(h)
    \/ \E h \in Sqlite : CommitPartitionMap(h)
    \/ \E h \in Sqlite : CommitSchema(h)

\* A writer bypasses IMMEDIATE.
SpecNonCore == Init /\ [][NextNonCore]_vars

\* Every writer goes through begin_transaction, on a store with :db.part/user
\* nearly used up.
SpecNearEnd == InitNearEnd /\ [][Next]_vars

\* The writers and the reads made while they work: transactions are begun,
\* transacted into, read through, rolled back and committed, and the store is
\* read through the Conn.
NextReads ==
    \/ \E h \in Sqlite : BeginTransaction(h)
    \/ \E h \in Sqlite : BeginSnapshot(h)
    \/ \E h \in Sqlite : TransactEntities(h)
    \/ \E h \in Sqlite : InProgressQOnce(h)
    \/ \E h \in Sqlite : InProgressLookup(h)
    \/ \E h \in Sqlite : LastReport(h)
    \/ \E h \in Sqlite : Rollback(h)
    \/ \E h \in Sqlite : CommitLock(h)
    \/ \E h \in Sqlite : CommitSubstrate(h)
    \/ \E h \in Sqlite : CommitGeneration(h)
    \/ \E h \in Sqlite : CommitPartitionMap(h)
    \/ \E h \in Sqlite : CommitSchema(h)
    \/ \E h \in Sqlite : ConnQOnce(h)
    \/ \E h \in Sqlite : ConnLookup(h)

SpecReads == Init /\ [][NextReads]_vars

\* The transactor at work: Conn::transact and nothing else, given each text
\* of the tests, on the stores earlier transactions left.
NextTransactor ==
    \/ \E h \in Sqlite : ConnTransact(h)
    \/ \E h \in Sqlite : ConnTransactTests(h)
    \/ \E h \in Sqlite : BeginSnapshot(h)
    \/ \E h \in Sqlite : TransactEntities(h)
    \/ \E h \in Sqlite : CommitLock(h)
    \/ \E h \in Sqlite : CommitSubstrate(h)
    \/ \E h \in Sqlite : CommitGeneration(h)
    \/ \E h \in Sqlite : CommitPartitionMap(h)
    \/ \E h \in Sqlite : CommitSchema(h)

SpecTransactor == Init /\ [][NextTransactor]_vars

\* The reports: transactions transacted into, asked for their last report
\* and committed, by the embedder and by Conn::transact.
NextReports ==
    \/ \E h \in Sqlite : BeginTransaction(h)
    \/ \E h \in Sqlite : ConnTransact(h)
    \/ \E h \in Sqlite : BeginSnapshot(h)
    \/ \E h \in Sqlite : TransactEntities(h)
    \/ \E h \in Sqlite : LastReport(h)
    \/ \E h \in Sqlite : CommitLock(h)
    \/ \E h \in Sqlite : CommitSubstrate(h)
    \/ \E h \in Sqlite : CommitGeneration(h)
    \/ \E h \in Sqlite : CommitPartitionMap(h)
    \/ \E h \in Sqlite : CommitSchema(h)

SpecReports == Init /\ [][NextReports]_vars

\* The debug views over the stores transactions leave.
NextDebug ==
    \/ Datoms
    \/ DatomsAfter
    \/ TransactionsAfter
    \/ FulltextValues

SpecDebug == InitDebug /\ [][NextDebug]_vars

\* ------------------------------------------------------------- properties
\* The connections whose thread is past the generation increment of a commit.
PastIncrement == {h \in Sqlite : ip[h].st \in {"generation", "partition_map"}}

\* The connections with a SQLite transaction open.
Open == {h \in Sqlite : ip[h].st \in {"begun", "active", "locked"}}

\* The entids of :db.part/user that appear in rows.
UserEntidsIn(rows) ==
    {n \in {d.e : d \in rows} \cup {d.ve : d \in rows} : USER0 <= n /\ n <= UserEnd}

\* A Metadata triple is the one of the store holding exactly rows: its
\* partition map and its schema both account for every row, and for no other.
Matches(triple, rows) ==
    /\ triple[2].user.index = USER0 + Cardinality(UserEntidsIn(rows))
    /\ triple[2].tx.index = TX0 + 1 + Cardinality({d.tx : d \in rows})
    /\ heap[triple[3]] =
           InitialSchema \cup {<<d.vk, d.e>> : d \in {r \in rows : r.a = ":db/ident"}}

ParseErrors == {"EdnParseError", "TxParseError"}

\* C1: the generation is 0 after open, grows by exactly 1 in each successful
\* commit and in no other step, so it counts the successful commits (one
\* more while a commit is between its increment and its return) and never
\* decreases.
C1_GenerationCountsCommits ==
    /\ [](metadata.generation = (Len(history) - 1) + Cardinality(PastIncrement))
    /\ [][/\ metadata'.generation \in {metadata.generation, metadata.generation + 1}
          /\ metadata'.generation # metadata.generation =>
               \E h \in Sqlite : ip[h].st = "committed" /\ ip'[h].st = "generation"
          /\ Len(history') # Len(history) =>
               /\ Len(history') = Len(history) + 1
               /\ outcome'.err = "" /\ outcome'.op \in {"commit", "Conn::transact"}]_vars

\* C1 witness: a second successful commit has just returned.
C1_Witness ==
    metadata.generation = 2 /\ outcome.op = "commit" /\ outcome.err = ""

\* C2: a commit whose InProgress observed another generation than the
\* current one fails with LostTransactRace, commits nothing to the store,
\* ends the InProgress and its transaction, and changes nothing of the
\* Metadata.
C2_LostTransactRace ==
    [][\A h \in Sqlite :
         (/\ ip[h].st = "active"
          /\ ip[h].generation # metadata.generation
          /\ \/ ip'[h].st = "locked"
             \/ outcome'.h = h /\ outcome'.op = CommitOp(h))
         => /\ outcome' = Outcome(h, CommitOp(h), "", "LostTransactRace",
                                  0, ip[h].calls, NoReport)
            /\ ip'[h] = NoIP
            /\ store' = store
            /\ ip[h].staged \cap store' = {}
            /\ wlock' = ReleasedBy(h)
            /\ UNCHANGED <<metadata, heap, mutex, history>>]_vars

\* C2 witness: a commit lost the race with changes staged.
C2_Witness ==
    outcome.err = "LostTransactRace" /\ outcome.op = "commit" /\ outcome.calls >= 1

\* C3: when the SQLite commit inside commit fails, the error is returned, the
\* mutex is free and not poisoned, and the Metadata is what it was before the
\* call (what the InProgress read at begin_transaction).
C3_CommitFailure ==
    [][\A h \in Sqlite :
         (ip[h].st = "locked" /\ ip'[h].st \notin {"locked", "committed"})
         => /\ outcome' = Outcome(h, CommitOp(h), "", "SqliteFailure",
                                  0, ip[h].calls, NoReport)
            /\ mutex' = [owner |-> 0, poisoned |-> FALSE]
            /\ ip'[h] = NoIP
            /\ store' = store
            /\ Triple(metadata') = ip[h].begun
            /\ UNCHANGED <<metadata, heap, history>>]_vars

\* C3 witness: a commit with staged changes failed in SQLite.
C3_Witness ==
    outcome.err = "SqliteFailure" /\ outcome.calls >= 1 /\ MutexFree

\* C4: whoever reads the Metadata under the mutex reads a triple some commit
\* (or the open) installed whole, whose partition map and schema are both
\* those of the store as committed; with the mutex free the Metadata is such a
\* triple, so a commit has installed both its partition map and its schema or
\* neither.
C4_NoTornMetadata ==
    /\ MutexFree =>
         /\ Triple(metadata) = history[Len(history)]
         /\ Matches(Triple(metadata), store)
    /\ \A h \in Sqlite : ip[h].st = "active" =>
         /\ \E i \in DOMAIN history : history[i] = ip[h].begun
         /\ Matches(ip[h].begun, store)
    /\ \A r \in Readers : snap[r].ptr # 0 =>
         \E i \in DOMAIN history : history[i][3] = snap[r].ptr

\* C4 witness: a begin_transaction waits for the mutex while a commit has
\* installed its generation and partition map and not yet its new schema.
C4_Witness ==
    \E h \in Sqlite, g \in Sqlite :
       /\ ip[h].st = "partition_map"
       /\ ip[h].schema # heap[metadata.schema]
       /\ ip[g].st = "begun"

\* C5: a rollback or a drop of an InProgress leaves the store without any of
\* its staged rows, and the Metadata as it was at begin_transaction.
C5_RollbackIsolation ==
    [][\A h \in Sqlite :
         (ip[h].st = "active" /\ outcome'.h = h /\ outcome'.op \in {"rollback", "drop"})
         => /\ ip'[h] = NoIP
            /\ store' = store
            /\ ip[h].staged \cap store' = {}
            /\ \A k \in Idents : q_once(store', k) = q_once(store, k)
            /\ wlock' = 0
            /\ Triple(metadata') = ip[h].begun
            /\ UNCHANGED <<metadata, heap, history>>]_vars

\* C5 witness: a rollback after two successful transact_entities calls.
C5_Witness ==
    outcome.op = "rollback" /\ outcome.err = "" /\ outcome.calls = 2

\* C6: the Schema behind an Arc a reader holds is the one it first saw.
C6_SnapshotStable ==
    \A r \in Readers : snap[r].ptr # 0 => heap[snap[r].ptr] = snap[r].copy

\* C6 witness: a reader holds a schema that commits have since replaced.
C6_Witness ==
    \E r \in Readers :
       /\ snap[r].ptr # 0
       /\ snap[r].ptr # metadata.schema
       /\ heap[metadata.schema] # snap[r].copy
       /\ MutexFree

\* C7: at most one connection has a SQLite transaction open, and it holds the
\* write intent; a begin_transaction (or the one of Conn::transact) while the
\* write intent is held returns SqliteBusy at once, with no InProgress and
\* nothing changed.
C7_SingleWriter ==
    /\ [](Cardinality(Open) <= 1 /\ \A h \in Open : wlock = h)
    /\ [][\A h \in Sqlite :
            (/\ ip[h].st = "none"
             /\ wlock # 0
             /\ \/ ip'[h].st # "none"
                \/ /\ outcome'.h = h
                   /\ \/ outcome'.op = "begin_transaction"
                      \/ outcome'.op = "Conn::transact" /\ outcome'.parse = "")
            => /\ outcome'.err = "SqliteBusy"
               /\ ip'[h] = NoIP
               /\ UNCHANGED <<metadata, heap, mutex, store, wlock, history>>]_vars

\* C7 witness: begin_transaction found the store busy with an InProgress
\* that has staged changes.
C7_Witness ==
    /\ outcome.op = "begin_transaction"
    /\ outcome.err = "SqliteBusy"
    /\ \E g \in Sqlite : g # outcome.h /\ ip[g].st = "active" /\ ip[g].calls >= 1

\* C8: a Conn::transact whose text is not well-formed EDN, or is not a
\* transaction, returns the parser's error out of a step in which its
\* connection has no InProgress before or after and takes no write intent,
\* whether or not the store is busy, and which changes nothing.
C8_ParseBeforeBegin ==
    /\ [](outcome.op = "Conn::transact" /\ outcome.parse # "" =>
            /\ outcome.parse \in ParseErrors
            /\ outcome.err = outcome.parse
            /\ ip[outcome.h] = NoIP
            /\ wlock # outcome.h)
    /\ [][\A h \in Sqlite :
            (outcome'.h = h /\ outcome'.op = "Conn::transact" /\ outcome'.parse # "")
            => /\ ip[h] = NoIP
               /\ UNCHANGED <<metadata, heap, mutex, store, wlock, ip, history>>]_vars

\* C8 witness: a parse error returned while another connection holds the
\* write intent.
C8_Witness ==
    /\ outcome.op = "Conn::transact"
    /\ outcome.err = "EdnParseError"
    /\ wlock \notin {0, outcome.h}

\* The calls through which an InProgress transacts.
TransactOps == {"transact_entities", "transact", "Conn::transact"}

\* C9: a transact_entities or transact that fails ends the InProgress and its
\* SQLite transaction, none of the rows staged by its earlier calls reach the
\* store, and the Metadata stays the triple read at begin_transaction; an
\* InProgress that has not transacted yet works from the Metadata's
\* partition map.
C9_FailedTransactAborts ==
    /\ [](\A h \in Sqlite : ip[h].st = "active" /\ ip[h].calls = 0 =>
            /\ ip[h].partition_map = metadata.partition_map
            /\ ip[h].schema = heap[metadata.schema])
    /\ [][\A h \in Sqlite :
            (/\ ip[h].st = "active"
             /\ outcome'.h = h
             /\ outcome'.op \in TransactOps
             /\ outcome'.err # "")
            => /\ ip'[h] = NoIP
               /\ store' = store
               /\ ip[h].staged \cap store' = {}
               /\ wlock' = 0
               /\ Triple(metadata') = ip[h].begun
               /\ UNCHANGED <<metadata, heap, mutex, history>>]_vars

\* C9 witness: a transact_entities that fails after one that succeeded.
C9_Witness ==
    /\ outcome.op = "transact_entities"
    /\ outcome.err = "UnrecognizedEntid"
    /\ outcome.calls = 1

\* The entids of :db.part/user that appear in rows and not in base.
AllocatedIn(rows, base) == UserEntidsIn(rows \cup base) \ UserEntidsIn(base)

\* C10: the calls of one InProgress stage their rows in one SQLite
\* transaction, each from the partition map the previous one left: tx ids
\* run on from the one read at begin_transaction, and the user index is ahead
\* of it by the entids allocated so far.  Its SQLite commit stores the rows of
\* all the calls in one step, and its commit returns with the generation one
\* above the one read at begin_transaction and with the working partition
\* map installed, ahead by the entids allocated over all the calls.
C10_CompoundTransact ==
    /\ [](\A h \in Sqlite : ip[h].st \in {"active", "locked"} =>
            /\ ip[h].staged \cap store = {}
            /\ {d.tx : d \in ip[h].staged} =
                  {ip[h].begun[2].tx.index + i : i \in 0..(ip[h].calls - 1)}
            /\ ip[h].partition_map.tx.index = ip[h].begun[2].tx.index + ip[h].calls
            /\ ip[h].partition_map.user.index =
                  ip[h].begun[2].user.index
                     + Cardinality(AllocatedIn(ip[h].staged, store)))
    /\ [][\A h \in Sqlite :
            /\ (ip[h].st = "locked" /\ ip'[h].st = "committed")
               => store' = store \cup ip[h].staged
            /\ (ip[h].st = "partition_map" /\ ip'[h].st = "none")
               => /\ outcome'.err = ""
                  /\ outcome'.calls = ip[h].calls
                  /\ ip[h].staged \subseteq store'
                  /\ metadata'.generation = ip[h].begun[1] + 1
                  /\ metadata'.partition_map = ip[h].partition_map
                  /\ heap'[metadata'.schema] = ip[h].schema
                  /\ metadata'.partition_map.user.index =
                        ip[h].begun[2].user.index
                           + Cardinality(AllocatedIn(ip[h].staged, store' \ ip[h].staged))]_vars

\* C10 witness: a commit of two calls that allocated three entids.
C10_Witness ==
    /\ outcome.op = "commit"
    /\ outcome.err = ""
    /\ outcome.calls = 2
    /\ metadata.generation = 1
    /\ metadata.partition_map.user.index = USER0 + 3
    /\ metadata.partition_map.tx.index = TX0 + 3

\* The entid a schema resolves the ident k to (0: none).
Resolved(schema, k) == IF HasIdent(schema, k) THEN SchemaEntid(schema, k) ELSE 0

\* C11: a query through an Active InProgress finds the entity of every ident
\* its working schema holds, those staged by its earlier calls included; the
\* rows of a call stay staged, under a tx id above those of the calls before
\* it; and while the InProgress is Active a query through the Conn finds what
\* the schema read at begin_transaction holds, none of the staged rows being
\* in the store.
C11_InProgressReads ==
    /\ [](\A h \in Sqlite : ip[h].st = "active" => ip[h].staged \cap store = {})
    /\ [][\A h \in Sqlite :
            /\ (ip[h].st = "active" /\ outcome'.h = h /\ outcome'.op = "InProgress::q_once")
               => /\ outcome'.entid = Resolved(ip[h].schema, outcome'.query)
                  /\ outcome'.calls = ip[h].calls
                  /\ \A d \in ip[h].staged :
                        (d.a = ":db/ident" /\ d.vk = outcome'.query) => outcome'.entid = d.e
                  /\ UNCHANGED <<metadata, heap, mutex, store, wlock, ip, history>>
            /\ (ip[h].st = "active" /\ outcome'.h = h
                  /\ outcome'.op = "InProgress::lookup_value_for_attribute")
               => /\ outcome'.query # "" => Resolved(ip[h].schema, outcome'.query) = outcome'.entid
                  /\ outcome'.query = "" => \A k \in Idents : Resolved(ip[h].schema, k) # outcome'.entid
                  /\ UNCHANGED <<metadata, heap, mutex, store, wlock, ip, history>>
            /\ (ip[h].st = "active" /\ ip'[h].st = "active")
               => /\ ip[h].staged \subseteq ip'[h].staged
                  /\ \A d \in ip'[h].staged \ ip[h].staged :
                        /\ d.tx = ip[h].partition_map.tx.index
                        /\ \A c \in ip[h].staged : c.tx < d.tx
            /\ (ip[h].st = "active" /\ outcome'.op = "Conn::q_once")
               => outcome'.entid = Resolved(heap[ip[h].begun[3]], outcome'.query)]_vars

\* C11 witness: after two calls the InProgress finds an entity its first call
\* staged, of which the store holds nothing.
C11_Witness ==
    /\ outcome.op = "InProgress::q_once"
    /\ outcome.calls = 2
    /\ outcome.entid >= USER0
    /\ store = {}

\* The entids user-supplied in a batch.
NamedEntids(entities) == {f.en : f \in {g \in FormsOf(entities) : g.et = ""}}

\* The thread of h, in Conn::transact, is about to transact its batch.
AboutToTransact(h) == ip[h].st = "active" /\ ip[h].oneshot /\ ip[h].calls = 0

\* C12: a Conn::transact whose batch names an entid at or beyond the index of
\* :db.part/user (the index itself included) fails with UnrecognizedEntid of
\* that entid and transacts nothing; one whose batch names allocated entids
\* only is not refused for them.  The entid an UnrecognizedEntid names is
\* never an allocated one.
C12_UnrecognizedEntid ==
    [][\A h \in Sqlite :
         /\ (AboutToTransact(h) /\ ip'[h] # ip[h])
            => LET index == ip[h].partition_map.user.index
                   beyond == {n \in NamedEntids(ip[h].pending) : n >= index}
               IN /\ beyond # {} =>
                       /\ outcome'.err = "UnrecognizedEntid"
                       /\ outcome'.entid \in beyond
                       /\ ip'[h] = NoIP
                       /\ store' = store
                  /\ beyond = {} =>
                       /\ outcome'.err # "UnrecognizedEntid"
                       /\ outcome'.err = "" =>
                            /\ ip'[h].calls = 1
                            /\ \A n \in NamedEntids(ip[h].pending) :
                                 \E d \in ip'[h].staged : d.e = n
         /\ (ip[h].st = "active" /\ outcome'.h = h /\ outcome'.err = "UnrecognizedEntid")
            => /\ outcome'.entid >= ip[h].partition_map.user.index
               /\ ~Allocated(ip[h].partition_map, outcome'.entid)]_vars

\* C12 witness: after a commit that allocated an entid, the entid equal to
\* the index was refused.
C12_Witness ==
    /\ outcome.op = "Conn::transact"
    /\ outcome.err = "UnrecognizedEntid"
    /\ outcome.entid = metadata.partition_map.user.index
    /\ outcome.entid > USER0

\* The entid a report gives the tempid t.
ReportEntid(report, t) == (CHOOSE p \in report.tempids : p[1] = t)[2]

Critical ==
    {h \in Sqlite : ip[h].st \in {"locked", "committed", "generation", "partition_map"}}

\* C15: at most one commit is in its critical section, and it is the one that
\* holds the mutex; while it is, no other thread changes the Metadata, the
\* store or the record of installed triples; it installs the generation one
\* above the one it checked, which is still the Metadata's; so the
\* generations installed are 1, 2, ... in the order the commits took the mutex.
C15_CommitsSerialize ==
    /\ [](/\ Cardinality(Critical) <= 1
          /\ \A h \in Critical : mutex.owner = h
          /\ mutex.owner # 0 => mutex.owner \in Critical
          /\ \A i \in DOMAIN history : history[i][1] = i - 1)
    /\ [][\A h \in Sqlite :
            /\ (h \in Critical /\ (metadata' # metadata \/ store' # store \/ history' # history))
               => /\ ip'[h] # ip[h]
                  /\ \A g \in Sqlite \ {h} : ip'[g] = ip[g]
            /\ (ip[h].st = "active" /\ ip'[h].st = "locked")
               => /\ mutex.owner = 0
                  /\ ip[h].generation = metadata.generation
            /\ (ip[h].st = "committed" /\ ip'[h].st = "generation")
               => /\ metadata.generation = ip[h].generation
                  /\ metadata'.generation = ip[h].generation + 1
            /\ (h \in Critical /\ ip'[h].st = "none" /\ outcome'.err = "")
               => /\ Len(history') = Len(history) + 1
                  /\ history'[Len(history')][1] = ip[h].generation + 1
                  /\ mutex'.owner = 0]_vars

\* C15 witness: a commit has installed its generation while another
\* InProgress, begun at the generation before, has yet to commit.
C15_Witness ==
    \E h \in Sqlite, g \in Sqlite :
       /\ ip[h].st = "generation"
       /\ ip[g].st = "active"
       /\ ip[g].generation < metadata.generation

\* The report of the latest of the calls that succeeded on the InProgress of
\* h: None before the first, else the one with the tx id last taken.
IsLatestReport(h, report) ==
    /\ report.some <=> ip[h].calls >= 1
    /\ report.some =>
         /\ report.tx_id = ip[h].begun[2].tx.index + ip[h].calls - 1
         /\ report.tx_id = ip[h].partition_map.tx.index - 1
         /\ \A d \in ip[h].staged : d.tx <= report.tx_id
         /\ \A p \in report.tempids :
              \E d \in ip[h].staged : d.tx = report.tx_id /\ (d.e = p[2] \/ d.ve = p[2])

\* C16: the report an Active InProgress holds is that of the latest of its
\* calls that succeeded; last_report returns it, and so does a commit that
\* succeeds: Some whenever a call succeeded, which in Conn::transact one has.
C16_LastReport ==
    /\ [](\A h \in Sqlite : ip[h].st = "active" => IsLatestReport(h, ip[h].last_report))
    /\ [][\A h \in Sqlite :
            /\ (ip[h].st = "active" /\ outcome'.h = h /\ outcome'.op = "last_report")
               => /\ IsLatestReport(h, outcome'.report)
                  /\ ip' = ip
            /\ (ip[h].st = "partition_map" /\ ip'[h].st = "none")
               => /\ outcome'.h = h /\ outcome'.err = ""
                  /\ IsLatestReport(h, outcome'.report)
                  /\ outcome'.op = "Conn::transact" => outcome'.report.some]_vars

\* C16 witness: a commit after two calls returned the report of the second.
C16_Witness ==
    /\ outcome.op = "commit"
    /\ outcome.err = ""
    /\ outcome.calls = 2
    /\ outcome.report.some
    /\ outcome.report.tx_id = TX0 + 2
    /\ outcome.report.tempids # {}

\* C17: with Conn::transact the only writer of a fresh store, the call that
\* succeeds as the k-th reports the tx id TX0 + k, empty transactions
\* included, and leaves TX0 + k + 1 as the next; a call that fails, in a
\* parser, for a busy store or in the transactor, leaves the next tx id and
\* the store as they were.
C17_TxIdSequence ==
    /\ [](/\ MutexFree => metadata.partition_map.tx.index = TX0 + 1 + metadata.generation
          /\ {d.tx : d \in store} \subseteq (TX0 + 1)..(TX0 + Len(history)))
    /\ [][\A h \in Sqlite :
            (outcome'.h = h /\ outcome'.op = "Conn::transact")
            => IF outcome'.err = ""
               THEN /\ outcome'.report.some
                    /\ outcome'.report.tx_id = TX0 + metadata'.generation
                    /\ outcome'.report.tx_id = TX0 + Len(history')  - 1
                    /\ metadata'.partition_map.tx.index = outcome'.report.tx_id + 1
                    /\ \E d \in store' : d.tx = outcome'.report.tx_id
               ELSE /\ ~outcome'.report.some
                    /\ metadata'.partition_map.tx.index = metadata.partition_map.tx.index
                    /\ store' = store
                    /\ history' = history]_vars

\* C17 witness: an empty transaction, the second to succeed, took TX0 + 2.
C17_Witness ==
    /\ outcome.op = "Conn::transact"
    /\ outcome.err = ""
    /\ outcome.report.tx_id = TX0 + 2
    /\ outcome.report.tempids = {}
    /\ \A d \in store : d.tx = TX0 + 2 => d.a = ":db/txInstant"

\* C18: when every writer comes through begin_transaction, an InProgress
\* that has read the generation holds the write intent until SQLite has
\* committed, its generation is the Metadata's while it is Active or in its
\* commit, and no call returns LostTransactRace.
C18_NoLostRace ==
    /\ \A h \in Sqlite : ip[h].st \in {"active", "locked"} =>
          /\ ip[h].generation = metadata.generation
          /\ ip[h].generation = ip[h].begun[1]
          /\ wlock = h
    /\ \A h \in Sqlite : ip[h].st = "begun" => wlock = h
    /\ outcome.err # "LostTransactRace"

\* C18 witness: a commit passed the generation check at the generation an
\* earlier commit installed.
C18_Witness ==
    \E h \in Sqlite :
       /\ ip[h].st = "locked"
       /\ ip[h].calls >= 1
       /\ ip[h].generation = 1
       /\ Len(history) = 2

\* Where the thread of an InProgress can be: no InProgress, IMMEDIATE taken,
\* Active, and the steps of commit.
Steps ==
    {<<"none", "begun">>, <<"begun", "active">>, <<"active", "active">>,
     <<"active", "locked">>, <<"active", "none">>, <<"locked", "committed">>,
     <<"locked", "none">>, <<"committed", "generation">>,
     <<"generation", "partition_map">>, <<"partition_map", "none">>}

\* The calls that take an InProgress by value.
Consuming == {"transact_entities", "transact", "rollback", "drop", "commit", "Conn::transact"}

\* C19: an InProgress is created Active by begin_transaction, stays Active
\* through a transact_entities that succeeds, and ends once: Committed, when
\* its commit returns Ok with its rows stored and its triple installed, or
\* Aborted, by rollback, drop, a transact or a commit that fails, with none of
\* its rows stored and nothing installed.  The call that ends it leaves no
\* InProgress behind, and every call on an InProgress finds one Active.
C19_StateMachine ==
    [][\A h \in Sqlite :
         /\ ip'[h].st # ip[h].st => <<ip[h].st, ip'[h].st>> \in Steps
         /\ (ip[h].st # "none" /\ ip'[h].st = "none")
            => /\ ip'[h] = NoIP
               /\ outcome'.h = h
               /\ outcome'.op \in Consuming
               /\ IF ip[h].st = "partition_map"
                  THEN /\ outcome'.err = ""
                       /\ outcome'.op = CommitOp(h)
                       /\ ip[h].staged \subseteq store'
                       /\ Len(history') = Len(history) + 1
                  ELSE /\ outcome'.op \notin {"rollback", "drop"} => outcome'.err # ""
                       /\ ip[h].staged \cap store' = {}
                       /\ history' = history
                       /\ metadata' = metadata
         /\ (outcome'.h = h /\ outcome'.op \in Consuming
               /\ ~(outcome'.op = "Conn::transact" /\ ip[h].st = "none"))
            => /\ ip[h].st \in {"active", "locked", "partition_map"}
               /\ ip'[h] = NoIP
         /\ (ip[h].st = "active" /\ ip'[h].st = "active" /\ ip'[h] # ip[h])
            => /\ ip'[h].calls = ip[h].calls + 1
               /\ outcome' = NoOutcome]_vars

\* C19 witness: an InProgress with staged rows was dropped after an earlier
\* one had been committed.
C19_Witness ==
    /\ outcome.op = "drop"
    /\ outcome.calls >= 1
    /\ ip[outcome.h] = NoIP
    /\ Len(history) = 2

\* C20: the step that ends a successful commit installs an Arc that did not
\* exist before, holding the working schema, when the working schema differs
\* from the installed one, and leaves the installed Arc when they are equal;
\* either way the installed schema is then the working schema, no other Arc
\* has changed, and that is what current_schema hands out next.
C20_SchemaInstall ==
    [][/\ \A h \in Sqlite :
            (ip[h].st = "partition_map" /\ ip'[h].st = "none")
            => /\ IF ip[h].schema # heap[metadata.schema]
                  THEN /\ metadata'.schema \notin DOMAIN heap
                       /\ metadata'.schema \in DOMAIN heap'
                  ELSE /\ metadata'.schema = metadata.schema
                       /\ heap' = heap
               /\ heap'[metadata'.schema] = ip[h].schema
               /\ \A i \in DOMAIN heap : heap'[i] = heap[i]
               /\ metadata'.generation = metadata.generation
               /\ metadata'.partition_map = metadata.partition_map
       /\ (\A h \in Sqlite : ~(ip[h].st = "partition_map" /\ ip'[h].st = "none"))
            => metadata'.schema = metadata.schema /\ heap' = heap
       /\ \A r \in Readers :
            snap'[r] # snap[r]
            => /\ snap'[r].ptr = history[Len(history)][3]
               /\ snap'[r].copy = heap[history[Len(history)][3]]]_vars

\* C20 witness: of two commits one installed a new Arc and one left the Arc
\* it found, and a reader has since been handed the installed one.
C20_Witness ==
    /\ Len(history) = 3
    /\ Len(heap) = 2
    /\ metadata.schema = 2
    /\ MutexFree
    /\ \E r \in Readers : snap[r].ptr = 2

\* C21: the write intent and the mutex are held by live InProgress only: the
\* step that ends an InProgress, however it ends, leaves neither with it; a
\* begin_transaction that finds no write intent held gets its transaction;
\* and the InProgress it builds holds the triple last installed in the
\* Metadata.
C21_WriteIntentReleased ==
    /\ [](/\ wlock # 0 => ip[wlock].st \in {"begun", "active", "locked"}
          /\ mutex.owner # 0 => ip[mutex.owner].st # "none"
          /\ ~mutex.poisoned)
    /\ [][\A h \in Sqlite :
            /\ (ip[h].st # "none" /\ ip'[h].st = "none")
               => /\ wlock' # h
                  /\ mutex'.owner # h
                  /\ ip[h].immediate => wlock' = 0
            /\ (ip[h].st = "none" /\ wlock = 0
                  /\ (ip'[h].st # "none"
                        \/ (outcome'.h = h /\ outcome'.op = "begin_transaction")))
               => /\ ip'[h].st = "begun"
                  /\ wlock' = h
                  /\ outcome' = NoOutcome
            /\ (ip[h].st = "begun" /\ ip'[h].st = "active")
               => /\ ip'[h].generation = metadata.generation
                  /\ ip'[h].partition_map = metadata.partition_map
                  /\ ip'[h].schema = heap[metadata.schema]
                  /\ Triple(metadata) = history[Len(history)]
                  /\ ip'[h].staged = {} /\ ip'[h].calls = 0]_vars

\* C21 witness: a transact_entities has just failed on an InProgress begun
\* after a commit, and nothing holds the write intent or the mutex.
C21_Witness ==
    /\ outcome.op = "transact_entities"
    /\ outcome.err # ""
    /\ outcome.calls >= 1
    /\ Len(history) = 2
    /\ wlock = 0
    /\ MutexFree
    /\ \A h \in Sqlite : ip[h] = NoIP

\* C22: a commit of an InProgress on which nothing was transacted is not
\* refused: it goes through the SQLite commit and, that succeeding, returns Ok
\* with no report, the generation one above the one read at
\* begin_transaction, and the partition map and the schema Arc read there
\* installed, the store as it was.
C22_EmptyCommit ==
    /\ [](\A h \in Sqlite : (ip[h].st \in {"active", "locked"} /\ ip[h].calls = 0) =>
            /\ ip[h].staged = {}
            /\ ~ip[h].last_report.some
            /\ ip[h].partition_map = ip[h].begun[2]
            /\ ip[h].schema = heap[ip[h].begun[3]])
    /\ [][\A h \in Sqlite :
            (ip[h].st # "none" /\ outcome'.h = h /\ outcome'.op = "commit" /\ outcome'.calls = 0)
            => /\ outcome'.err \in {"", "SqliteFailure"}
               /\ outcome'.err = "SqliteFailure" => ip[h].st = "locked"
               /\ outcome'.err = "" =>
                    /\ ip[h].st = "partition_map"
                    /\ outcome'.report = NoReport
                    /\ metadata'.generation = ip[h].begun[1] + 1
                    /\ metadata'.partition_map = ip[h].begun[2]
                    /\ metadata'.schema = ip[h].begun[3]
                    /\ heap' = heap
                    /\ store' = store
                    /\ history' = Append(history, Triple(metadata'))]_vars

\* C22 witness: a commit with nothing transacted returned Ok(None) after a
\* commit that had changed the schema.
C22_Witness ==
    /\ outcome.op = "commit"
    /\ outcome.err = ""
    /\ outcome.calls = 0
    /\ ~outcome.report.some
    /\ metadata.generation = 2
    /\ metadata.schema = 2
    /\ history[3][2] = history[2][2]

\* The datoms a view returned, in the order it returned them: those of a
\* Transactions are the datoms of its groups, one group after the other.
RECURSIVE Flatten(_)
Flatten(groups) ==
    IF groups = <<>> THEN <<>> ELSE Head(groups) \o Flatten(Tail(groups))

SnapshotReturned == outcome.op \in {"datoms", "datoms_after"} /\ outcome.err = ""
HistoryReturned == outcome.op = "transactions_after" /\ outcome.err = ""

\* Datom d of a view shows row r of the table the view reads: the same e and
\* tx, the attribute by its ident where the Schema has one, the stored v as
\* an integer or as the ident of the entity it refers to, and the row's
\* added where the table has one.
Shows(d, r) ==
    LET schema == outcome.view.schema
    IN /\ d.e = EntidEntid(r.e)
       /\ d.a = to_entid(schema, r.a)
       /\ d.tx = r.tx
       /\ d.v \in {EdnInteger(r.v), EdnKeyword(get_ident(schema, r.v))}
       /\ \/ HistoryReturned /\ d.added = Some(r.added)
          \/ SnapshotReturned /\ d.added = "None"

Read == IF HistoryReturned THEN store.transactions ELSE store.datoms
RowOf(d) == CHOOSE r \in Read : Shows(d, r)

\* The value_type_tag the rows are to be ordered by: the long tag for the
\* rows of a fulltext attribute, the stored tag for the others.
TagForOrder(r) ==
    LET attribute_map == outcome.view.schema.attribute_map
    IN IF r.a \in DOMAIN attribute_map /\ attribute_map[r.a].fulltext
       THEN LongTag ELSE r.value_type_tag

Emitted ==
    IF HistoryReturned THEN Flatten(outcome.view.rows)
    ELSE IF outcome.op = "datoms_after" /\ outcome.err = "" THEN outcome.view.rows
    ELSE <<>>

Fulltext(r) == outcome.view.schema.attribute_map[r.a].fulltext

\* The value of a row read with its stored tag: the ident of the entity a
\* ref refers to where the Schema has one, the integer otherwise.
AsStored(r) ==
    IF r.value_type_tag = RefTag /\ get_ident(outcome.view.schema, r.v) # ""
    THEN EdnKeyword(get_ident(outcome.view.schema, r.v))
    ELSE EdnInteger(r.v)

\* C24 (as stated): datoms_after and transactions_after emit a datom of a
\* fulltext attribute with the string the stored rowid resolves to, and a
\* datom of any other attribute with its value read with its stored tag.
C24_ResolvedString ==
    \A i \in 1..Len(Emitted) :
       LET r == RowOf(Emitted[i])
       IN IF Fulltext(r)
          THEN Emitted[i].v = EdnText(store.fulltext_values[r.v])
          ELSE Emitted[i].v = AsStored(r)

\* C24 (amended): datoms_after and transactions_after read the value of a
\* row of a fulltext attribute with the long tag in place of its stored
\* tag, and emit it as that integer, the rowid of the string in
\* fulltext_values and not the string; they do not fail on such a row; and
\* a datom of any other attribute is emitted with its value read with its
\* stored tag.
C24_FulltextRowid ==
    /\ \A i \in 1..Len(Emitted) :
          LET r == RowOf(Emitted[i])
          IN IF Fulltext(r)
             THEN /\ Emitted[i].v = EdnInteger(r.v)
                  /\ r.v \in DOMAIN store.fulltext_values
             ELSE Emitted[i].v = AsStored(r)
    /\ outcome.op \in {"datoms_after", "transactions_after"}
         => \/ outcome.err = ""
            \/ \E r \in Read : r.a \notin DOMAIN outcome.view.schema.attribute_map

\* A view emitted a datom of a fulltext attribute and a ref by its ident.
C24_Witness ==
    /\ \E i \in 1..Len(Emitted) : Fulltext(RowOf(Emitted[i]))
    /\ \E i \in 1..Len(Emitted) : Emitted[i].v.edn = "Keyword"

\* The rows r of a table that satisfy wanted are the rows the datoms show,
\* each once.
ShowExactly(rows, table, wanted(_)) ==
    /\ \A r \in table : wanted(r) <=> \E i \in 1..Len(rows) : Shows(rows[i], r)
    /\ \A i \in 1..Len(rows) : \E r \in table : Shows(rows[i], r)
    /\ Len(rows) = Cardinality({r \in table : wanted(r)})

\* C25: datoms_after(tx) returns exactly the rows of datoms with a
\* transaction id greater than tx whose attribute is not :db/txInstant;
\* transactions_after(tx) returns every row of transactions with a
\* transaction id greater than tx, the :db/txInstant of each such
\* transaction among them; datoms() returns what datoms_after(TX0 - 1)
\* returns, every row of datoms that is not a :db/txInstant.
C25_ViewsSelect ==
    LET after == outcome.view.after
        rows == outcome.view.rows
        schema == outcome.view.schema
    IN /\ outcome.op = "datoms_after" /\ outcome.err = "" =>
            LET wanted(r) == r.tx > after /\ r.a # DB_TX_INSTANT
            IN ShowExactly(rows, store.datoms, wanted)
       /\ HistoryReturned =>
            LET wanted(r) == r.tx > after
            IN /\ ShowExactly(Flatten(rows), store.transactions, wanted)
               /\ \A r \in store.transactions :
                    r.tx > after =>
                      \E g \in 1..Len(rows) : \E i \in 1..Len(rows[g]) :
                         /\ rows[g][i].tx = r.tx
                         /\ rows[g][i].a = to_entid(schema, DB_TX_INSTANT)
       /\ outcome.op = "datoms" =>
            LET wanted(r) == r.a # DB_TX_INSTANT
            IN /\ outcome.err = datoms_after(store, schema, TX0 - 1).err
               /\ rows = datoms_after(store, schema, TX0 - 1).rows
               /\ outcome.err = "" => ShowExactly(rows, store.datoms, wanted)

\* datoms_after(TX0 + 1) returned datoms of a store whose datoms table has
\* a row of transaction TX0 + 1, and the :db/txInstant of the transaction
\* after it.
C25_Witness ==
    /\ outcome.op = "datoms_after" /\ outcome.err = ""
    /\ outcome.view.after = TX0 + 1
    /\ outcome.view.rows # <<>>
    /\ \E r \in store.datoms : r.tx = TX0 + 1 /\ r.a # DB_TX_INSTANT
    /\ \E r \in store.datoms : r.tx = TX0 + 2 /\ r.a = DB_TX_INSTANT

====
